---- MODULE Spec2Model ----
(***************************************************************************)
(* Hotel recommendation service: the filter, scoring, reasoning and        *)
(* reranking logic of logic.py and the HTTP handlers of main.py over the   *)
(* "hotels" table of db.py.                                                *)
(*                                                                         *)
(* Representation.  A Python str is a sequence of one-character strings.   *)
(* Optional[str] is a record [some, v].  A price is a whole number of      *)
(* currency units, a rating is kept in hundredths of a star (437 is 4.37)  *)
(* and a score in tenths of a point (943 is 94.3), so that round(score, 1) *)
(* is a real rounding step.                                                *)
(***************************************************************************)
EXTENDS Integers, Sequences, FiniteSets, TLC

VARIABLES
    table,         \* rows of the remote "hotels" table, in storage order
    supabase,      \* db.supabase: TRUE when the client was created at import
    API_KEY,       \* logic.API_KEY: TRUE when GEMINI_API_KEY is set
    tasks,         \* background tasks scheduled and not yet run
    call,          \* the operation invoked last, with its inputs
    ret,           \* what that operation returned
    locals,        \* local variables of the handler that ran last
    remote_calls,  \* generate_content calls made by the operation invoked last
    pc             \* "called" / "returned" for a function call,
                   \* "idle" / "responded" for the HTTP server

vars == <<table, supabase, API_KEY, tasks, call, ret, locals, remote_calls, pc>>

-----------------------------------------------------------------------------
(* Bounds of the model *)

MaxHotels == 2

MaxAmenities == 6

MaxTextLen == 2

MaxItems == 2

MaxTasks == 1

-----------------------------------------------------------------------------
(* Python values *)

None == [some |-> FALSE, v |-> <<>>]

Some(s) == [some |-> TRUE, v |-> s]

\* bool(x) of an Optional[str]: None and "" are falsy
Truthy(o) == o.some /\ o.v /= <<>>

Min(a, b) == IF a <= b THEN a ELSE b

Max(a, b) == IF a >= b THEN a ELSE b

Range(s) == {s[i] : i \in 1..Len(s)}

SeqsUpTo(S, n) == UNION {[1..k -> S] : k \in 0..n}

\* str.lower() on one character of the alphabet used here
LowerChar(c) ==
    CASE c = "N" -> "n"
      [] c = "Y" -> "y"
      [] c = "C" -> "c"
      [] c = "W" -> "w"
      [] c = "I" -> "i"
      [] c = "P" -> "p"
      [] OTHER -> c

\* str.lower()
Lower(s) == [i \in 1..Len(s) |-> LowerChar(s[i])]

\* needle in haystack, for two str
StrIn(needle, haystack) ==
    \E k \in 0..(Len(haystack) - Len(needle)) :
        \A i \in 1..Len(needle) : haystack[k + i] = needle[i]

\* x in list
ListIn(x, list) == \E i \in 1..Len(list) : list[i] = x

\* round(n / d) to the nearest integer, ties to even, for d > 0
RoundHalfEven(n, d) ==
    LET q == n \div d
        r == n - q * d
    IN  IF 2 * r < d THEN q
        ELSE IF 2 * r > d THEN q + 1
        ELSE IF q % 2 = 0 THEN q ELSE q + 1

-----------------------------------------------------------------------------
(* models.py *)

Hotel(id, location, price, rating, amenities) ==
    [id |-> id, location |-> location, price |-> price, rating |-> rating,
     amenities |-> amenities]

UserPreference(location, min_price, max_price, required_amenities, trip_description) ==
    [location |-> location, min_price |-> min_price, max_price |-> max_price,
     required_amenities |-> required_amenities,
     trip_description |-> trip_description]

-----------------------------------------------------------------------------
(* logic.filter_hotels *)

\* the amenities block with the hotel's labels compared as they are written
MissingAmenityCaseSensitive(hotel, amenities) ==
    \E j \in 1..Len(amenities) : ~ListIn(Lower(amenities[j]), hotel.amenities)

\* the amenities block: does the loop over required amenities set missing_amenity
MissingAmenity(hotel, amenities) ==
    LET hotel_amenities_lower == [i \in 1..Len(hotel.amenities) |-> Lower(hotel.amenities[i])]
    IN  \E j \in 1..Len(amenities) :
            ~ListIn(Lower(amenities[j]), hotel_amenities_lower)

\* one pass of the loop body: TRUE when a continue statement skips the hotel
FilterSkips(hotel, location, min_price, max_price, amenities) ==
    IF Truthy(location) /\ ~StrIn(Lower(location.v), Lower(hotel.location))
    THEN TRUE
    ELSE IF ~(min_price <= hotel.price /\ hotel.price <= max_price)
    THEN TRUE
    ELSE IF amenities /= <<>> /\ MissingAmenity(hotel, amenities)
    THEN TRUE
    ELSE FALSE

RECURSIVE FilterLoop(_, _, _, _, _, _, _)
FilterLoop(hotels, i, filtered_hotels, location, min_price, max_price, amenities) ==
    IF i > Len(hotels) THEN filtered_hotels
    ELSE FilterLoop(hotels, i + 1,
                    IF FilterSkips(hotels[i], location, min_price, max_price, amenities)
                    THEN filtered_hotels
                    ELSE Append(filtered_hotels, hotels[i]),
                    location, min_price, max_price, amenities)

filter_hotels(hotels, location, min_price, max_price, amenities) ==
    FilterLoop(hotels, 1, <<>>, location, min_price, max_price, amenities)

-----------------------------------------------------------------------------
(* logic.calculate_recommendation_score, in thousandths until rounded *)

\* price_ratio = hotel.price / user_pref.max_price, as numerator and denominator
PriceRatio(hotel, user_pref) == <<hotel.price, user_pref.max_price>>

\* price_ratio < 1.0, for a positive denominator
RatioBelowOne(ratio) == ratio[1] < ratio[2]

\* price_ratio <= 1.0, for a positive denominator
RatioAtMostOne(ratio) == ratio[1] <= ratio[2]

PriceScore(hotel, user_pref) ==
    IF user_pref.max_price > 0
    THEN IF RatioAtMostOne(PriceRatio(hotel, user_pref)) THEN 40000 ELSE 0
    ELSE 0

\* (hotel.rating / 5.0) * 30.0
RatingScore(hotel) == ((hotel.rating * 10) * 30) \div 5

\* amenity_count * 6.0, with no cap
AmenityScoreUncapped(hotel) == Len(hotel.amenities) * 6000

\* min(amenity_count * 6.0, 30.0)
AmenityScore(hotel) == Min(Len(hotel.amenities) * 6000, 30000)

\* round(score, 1), in tenths
calculate_recommendation_score(hotel, user_pref) ==
    RoundHalfEven(0 + PriceScore(hotel, user_pref) + RatingScore(hotel)
                    + AmenityScore(hotel), 100)

-----------------------------------------------------------------------------
(* logic.generate_recommendation_reason *)

Digit(d) == <<"0", "1", "2", "3", "4", "5", "6", "7", "8", "9">>[d + 1]

\* str(n) for a natural number n
RECURSIVE StrNat(_)
StrNat(n) == IF n < 10 THEN <<Digit(n)>> ELSE Append(StrNat(n \div 10), Digit(n % 10))

\* str(x) for the float x = h / 100: "4.0", "4.3", "4.37", "-1.0"
StrHundredths(h) ==
    LET a == IF h < 0 THEN -h ELSE h
        sign == IF h < 0 THEN <<"-">> ELSE <<>>
        frac == a % 100
        decimals == IF frac % 10 = 0 THEN <<Digit(frac \div 10)>>
                    ELSE <<Digit(frac \div 10), Digit(frac % 10)>>
    IN  sign \o StrNat(a \div 100) \o <<".">> \o decimals

\* the three literal pieces of the template
FallbackLocatedIn ==
    <<"T", "h", "i", "s", " ", "h", "o", "t", "e", "l", " ", "i", "s", " ",
      "a", " ", "g", "r", "e", "a", "t", " ", "m", "a", "t", "c", "h", " ",
      "l", "o", "c", "a", "t", "e", "d", " ", "i", "n", " ">>

FallbackRating ==
    <<" ", "w", "i", "t", "h", " ", "a", " ", "r", "a", "t", "i", "n", "g",
      " ", "o", "f", " ">>

FallbackCosts ==
    <<".", " ", "I", "t", " ", "c", "o", "s", "t", "s", " ", "$">>

FallbackPerNight ==
    <<" ", "p", "e", "r", " ", "n", "i", "g", "h", "t", ".">>

fallback_reason(hotel) ==
    FallbackLocatedIn \o hotel.location \o FallbackRating
        \o StrHundredths(hotel.rating) \o FallbackCosts
        \o StrHundredths(hotel.price * 100) \o FallbackPerNight

\* str.replace("\n", " ")
ReplaceNewlines(s) == [i \in 1..Len(s) |-> IF s[i] = "\n" THEN " " ELSE s[i]]

IsSpace(c) == c \in {" ", "\n", "\t"}

RECURSIVE LStrip(_)
LStrip(s) == IF s /= <<>> /\ IsSpace(Head(s)) THEN LStrip(Tail(s)) ELSE s

RECURSIVE RStrip(_)
RStrip(s) ==
    IF s /= <<>> /\ IsSpace(s[Len(s)]) THEN RStrip(SubSeq(s, 1, Len(s) - 1)) ELSE s

\* str.strip()
Strip(s) == RStrip(LStrip(s))

\* A reply of model.generate_content(prompt) read through response.text:
\* it raises, or it is a text.
Raises == [raises |-> TRUE, text |-> <<>>]

Text(s) == [raises |-> FALSE, text |-> s]

\* the function's result and the remote calls it made; reply is what the
\* remote call answers if it is made
generate_recommendation_reason(hotel, user_pref, score, api_key, reply) ==
    IF api_key
    THEN IF ~reply.raises /\ reply.text /= <<>>
         THEN [ret |-> Strip(ReplaceNewlines(reply.text)), calls |-> 1]
         ELSE [ret |-> fallback_reason(hotel), calls |-> 1]
    ELSE [ret |-> fallback_reason(hotel), calls |-> 0]

-----------------------------------------------------------------------------
(* logic.rerank_hotels *)

\* A JSON value as json.loads returns it: t is its type, n its number (a
\* "float" n stands for n + 0.5), s its text.  "missing" is an absent key.
Missing == [t |-> "missing", n |-> 0, s |-> ""]

JNull == [t |-> "null", n |-> 0, s |-> ""]

JInt(n) == [t |-> "int", n |-> n, s |-> ""]

JFloat(n) == [t |-> "float", n |-> n, s |-> ""]

JStr(s) == [t |-> "str", n |-> 0, s |-> s]

JObj == [t |-> "obj", n |-> 0, s |-> ""]

\* an element of the parsed array: a dict with some of the three keys, or
\* anything else
Item(index, score, reasoning) ==
    [isdict |-> TRUE, index |-> index, score |-> score, reasoning |-> reasoning]

NonDict == [isdict |-> FALSE, index |-> Missing, score |-> Missing, reasoning |-> Missing]

\* rank.get(key): None when the key is absent
Get(v) == IF v.t = "missing" THEN JNull ELSE v

\* rank.get(key, default)
GetDefault(v, default) == IF v.t = "missing" THEN default ELSE v

\* 0 <= idx < len(hotels) for a number; any other type raises TypeError
IdxInRange(idx, n) == 0 <= idx.n /\ idx.n < n

\* the same pass with the upper bound of the index test off by one
RankStepOffByOne(rank, hotels) ==
    IF ~rank.isdict THEN "raise"
    ELSE LET idx == Get(rank.index)
         IN  IF idx.t = "null" THEN "skip"
             ELSE IF idx.t \notin {"int", "float"} THEN "raise"
             ELSE IF ~IdxInRange(idx, Len(hotels) - 1) THEN "skip"
             ELSE IF idx.t = "float" THEN "raise"
             ELSE "append"

\* One pass of the loop over rankings: "raise" (rank.get on a non-dict, the
\* comparison of a non-number, hotels[idx] with a float), "append" or "skip".
RankStep(rank, hotels) ==
    IF ~rank.isdict THEN "raise"
    ELSE LET idx == Get(rank.index)
         IN  IF idx.t = "null" THEN "skip"
             ELSE IF idx.t \notin {"int", "float"} THEN "raise"
             ELSE IF ~IdxInRange(idx, Len(hotels)) THEN "skip"
             ELSE IF idx.t = "float" THEN "raise"
             ELSE "append"

RankEntry(rank, hotels) ==
    [hotel |-> hotels[rank.index.n + 1],
     score |-> GetDefault(rank.score, JInt(0)),
     reasoning |-> GetDefault(rank.reasoning, JStr("AI Recommended"))]

\* the loop over rankings: the results, or raised
RECURSIVE RankLoop(_, _, _, _)
RankLoop(rankings, i, results, hotels) ==
    IF i > Len(rankings) THEN [raised |-> FALSE, results |-> results]
    ELSE LET step == RankStep(rankings[i], hotels)
         IN  IF step = "raise" THEN [raised |-> TRUE, results |-> <<>>]
             ELSE RankLoop(rankings, i + 1,
                           IF step = "append"
                           THEN Append(results, RankEntry(rankings[i], hotels))
                           ELSE results,
                           hotels)

\* What the remote call and the parsing of its text come to: the call (or
\* response.text) raises, json.loads raises on the text, the text parses to a
\* JSON array, or it parses to something else.
ReplyRaises == [kind |-> "raises", rankings |-> <<>>]

ReplyInvalid == [kind |-> "invalid", rankings |-> <<>>]

ReplyArray(items) == [kind |-> "array", rankings |-> items]

\* a JSON number: iterating it raises TypeError
ReplyNumber == [kind |-> "number", rankings |-> <<>>]

\* the guard of the first return, with the API key not looked at
NoRerankNeededIgnoringKey(user_pref, api_key) == ~Truthy(user_pref.trip_description)

\* the guard of the first return: not user_pref.trip_description or not API_KEY
NoRerankNeeded(user_pref, api_key) ==
    ~Truthy(user_pref.trip_description) \/ ~api_key

\* the function's result and the remote calls it made
rerank_hotels(hotels, user_pref, api_key, reply) ==
    IF NoRerankNeeded(user_pref, api_key)
    THEN [ret |-> <<>>, calls |-> 0]
    ELSE IF reply.kind /= "array"
    THEN [ret |-> <<>>, calls |-> 1]
    ELSE LET loop == RankLoop(reply.rankings, 1, <<>>, hotels)
         IN  [ret |-> IF loop.raised THEN <<>> ELSE loop.results, calls |-> 1]

-----------------------------------------------------------------------------
(* Input domains *)

NYC == <<"N", "Y", "C">>

Wifi == <<"W", "i">>

Pool == <<"P">>

FilterHotelLocations == {<<"N", "y">>, <<"n", "y", "c">>}

FilterLocationCriteria ==
    {None, Some(<<>>), Some(<<"n", "Y">>), Some(<<"C">>), Some(<<"y", "n">>)}

FilterHotelAmenities == {<<>>, <<Wifi>>, <<<<"w", "i">>, Pool>>}

FilterRequiredAmenities == {<<>>, <<<<"W", "I">>>>, <<<<"p">>, <<"w", "i">>>>}

FilterHotelData ==
    {Hotel(0, l, p, 400, a) :
        l \in FilterHotelLocations, p \in {50, 100}, a \in FilterHotelAmenities}

\* a collection of hotels: the i-th one carries id i
WithIds(data) == [i \in 1..Len(data) |-> [data[i] EXCEPT !.id = i]]

FilterCollections == {WithIds(d) : d \in SeqsUpTo(FilterHotelData, MaxHotels)}

\* a list of n amenity labels
AmenityList(n) == [i \in 1..n |-> IF i % 2 = 0 THEN Pool ELSE Wifi]

ScoreHotels ==
    {Hotel(1, NYC, p, r, AmenityList(n)) :
        p \in {0, 100, 250}, r \in {0, 437, 500, 625}, n \in 0..MaxAmenities}

ScorePrefs ==
    {UserPreference(l, mn, mx, a, t) :
        l \in {None, Some(NYC)}, mn \in {0, 50}, mx \in {0, 100, 200},
        a \in {<<>>, <<Wifi>>}, t \in {None, Some(<<"s", "k", "i">>)}}

ReasonHotels ==
    {Hotel(1, l, p, r, <<Wifi>>) : l \in {<<>>, NYC}, p \in {0, 120}, r \in {400, 437}}

ReasonReplies == {Raises} \cup {Text(s) : s \in SeqsUpTo({"o", " ", "\n"}, MaxTextLen)}

SkiTrip == <<"s", "k", "i">>

TripDescriptions == {None, Some(<<>>), Some(SkiTrip)}

\* n candidates; the i-th one carries id i
Candidates(n) == [i \in 1..n |-> Hotel(i, NYC, 100 * i, 400, <<Wifi>>)]

IndexValues ==
    {Missing, JNull, JStr("first"), JFloat(0)} \cup {JInt(i) : i \in -1..MaxHotels}

RankItems ==
    {Item(i, JInt(87), JStr("cosy")) : i \in IndexValues}
        \cup {Item(JInt(0), s, JStr("cosy")) : s \in {Missing, JNull, JStr("high")}}
        \cup {Item(JInt(0), JInt(87), r) : r \in {Missing, JNull, JObj}}
        \cup {Item(JInt(0), Missing, Missing), NonDict}

RerankReplies(n) ==
    {ReplyRaises, ReplyInvalid, ReplyNumber}
        \cup {ReplyArray(items) : items \in SeqsUpTo(RankItems, n)}


-----------------------------------------------------------------------------
(* Specification of a call of filter_hotels *)

NoLocals == [all_hotels |-> <<>>, filtered |-> <<>>, reranked |-> <<>>]

InitFilter ==
    /\ table = <<>>
    /\ supabase = FALSE
    /\ API_KEY = FALSE
    /\ tasks = <<>>
    /\ call \in [op : {"filter_hotels"}, hotels : FilterCollections,
                 location : FilterLocationCriteria, min_price : {0, 100},
                 max_price : {100, 50}, amenities : FilterRequiredAmenities]
    /\ ret = <<>>
    /\ locals = NoLocals
    /\ remote_calls = 0
    /\ pc = "called"

RunFilter ==
    /\ pc = "called"
    /\ call.op = "filter_hotels"
    /\ ret' = filter_hotels(call.hotels, call.location, call.min_price,
                            call.max_price, call.amenities)
    /\ pc' = "returned"
    /\ UNCHANGED <<table, supabase, API_KEY, tasks, call, locals, remote_calls>>

SpecFilter == InitFilter /\ [][RunFilter]_vars

(* Specification of a call of calculate_recommendation_score *)

InitScore ==
    /\ table = <<>>
    /\ supabase = FALSE
    /\ API_KEY = FALSE
    /\ tasks = <<>>
    /\ call \in [op : {"calculate_recommendation_score"}, hotel : ScoreHotels,
                 user_pref : ScorePrefs]
    /\ ret = 0
    /\ locals = NoLocals
    /\ remote_calls = 0
    /\ pc = "called"

RunScore ==
    /\ pc = "called"
    /\ call.op = "calculate_recommendation_score"
    /\ ret' = calculate_recommendation_score(call.hotel, call.user_pref)
    /\ pc' = "returned"
    /\ UNCHANGED <<table, supabase, API_KEY, tasks, call, locals, remote_calls>>

SpecScore == InitScore /\ [][RunScore]_vars

(* Specification of a call of generate_recommendation_reason *)

InitReason ==
    /\ table = <<>>
    /\ supabase = FALSE
    /\ API_KEY \in BOOLEAN
    /\ tasks = <<>>
    /\ call \in [op : {"generate_recommendation_reason"}, hotel : ReasonHotels,
                 user_pref : {UserPreference(Some(NYC), 0, 200, <<>>, None)},
                 score : {640, 1000}, reply : ReasonReplies]
    /\ ret = <<>>
    /\ locals = NoLocals
    /\ remote_calls = 0
    /\ pc = "called"

RunReason ==
    /\ pc = "called"
    /\ call.op = "generate_recommendation_reason"
    /\ LET r == generate_recommendation_reason(call.hotel, call.user_pref,
                                               call.score, API_KEY, call.reply)
       IN  ret' = r.ret /\ remote_calls' = r.calls
    /\ pc' = "returned"
    /\ UNCHANGED <<table, supabase, API_KEY, tasks, call, locals>>

SpecReason == InitReason /\ [][RunReason]_vars

(* Specification of a call of rerank_hotels *)

InitRerank ==
    /\ table = <<>>
    /\ supabase = FALSE
    /\ API_KEY \in BOOLEAN
    /\ tasks = <<>>
    /\ call \in [op : {"rerank_hotels"},
                 hotels : {Candidates(n) : n \in 0..MaxHotels},
                 user_pref : {UserPreference(None, 0, 200, <<>>, t) : t \in TripDescriptions},
                 reply : RerankReplies(MaxItems)]
    /\ ret = <<>>
    /\ locals = NoLocals
    /\ remote_calls = 0
    /\ pc = "called"

RunRerank ==
    /\ pc = "called"
    /\ call.op = "rerank_hotels"
    /\ LET r == rerank_hotels(call.hotels, call.user_pref, API_KEY, call.reply)
       IN  ret' = r.ret /\ remote_calls' = r.calls
    /\ pc' = "returned"
    /\ UNCHANGED <<table, supabase, API_KEY, tasks, call, locals>>

SpecRerank == InitRerank /\ [][RunRerank]_vars

-----------------------------------------------------------------------------
(* db.py *)

\* get_all_hotels(): the rows, or [] when there is no client or the select
\* (or the validation of a row) raises
get_all_hotels(db_ok) == IF ~supabase THEN <<>> ELSE IF db_ok THEN table ELSE <<>>

-----------------------------------------------------------------------------
(* main.py: dependencies *)

NoHeader == [present |-> FALSE, v |-> ""]

Header(v) == [present |-> TRUE, v |-> v]

\* a verify_token that only asks for the header to be there
VerifyTokenAnyValue(x_token) == IF ~x_token.present THEN 422 ELSE 0

\* verify_token as a dependency: 422 when the required header is absent, 400
\* when it is not the secret, 0 when the handler may run
verify_token(x_token) ==
    IF ~x_token.present THEN 422
    ELSE IF x_token.v /= "secret-token" THEN 400
    ELSE 0

\* pagination_parameters: 422 unless skip >= 0 and limit <= 100
pagination_parameters(skip, limit) == IF skip >= 0 /\ limit <= 100 THEN 0 ELSE 422

\* seq[start:end] of Python, for any integers start and end
PySlice(seq, start, end) ==
    LET n == Len(seq)
        lo == IF start < 0 THEN Max(start + n, 0) ELSE Min(start, n)
        hi == IF end < 0 THEN Max(end + n, 0) ELSE Min(end, n)
    IN  IF lo < hi THEN SubSeq(seq, lo + 1, hi) ELSE <<>>

Response(status, body) == [status |-> status, body |-> body]

-----------------------------------------------------------------------------
(* main.py: list.sort(key = score, reverse = True) *)

\* x put at the end, whatever its score
InsertLast(sorted, x) == Append(sorted, x)

\* x put behind every element whose score is at least its own
InsertDesc(sorted, x) ==
    LET k == Cardinality({i \in 1..Len(sorted) : sorted[i].score >= x.score})
    IN  SubSeq(sorted, 1, k) \o <<x>> \o SubSeq(sorted, k + 1, Len(sorted))

RECURSIVE SortDescFrom(_, _, _)
SortDescFrom(seq, i, sorted) ==
    IF i > Len(seq) THEN sorted
    ELSE SortDescFrom(seq, i + 1, InsertDesc(sorted, seq[i]))

\* a stable sort by descending score
SortDesc(seq) == SortDescFrom(seq, 1, <<>>)

-----------------------------------------------------------------------------
(* main.py: get_recommendations *)

\* RecommendationResponse(**r): score must be a number and reasoning a str
ValidRecommendation(r) == r.score.t \in {"int", "float"} /\ r.reasoning.t = "str"

\* initial_scored, sorted, cut to the first five hotels
top_candidates(filtered, user_pref) ==
    LET initial_scored ==
            [i \in 1..Len(filtered) |->
                [hotel |-> filtered[i],
                 score |-> calculate_recommendation_score(filtered[i], user_pref)]]
        sorted == SortDesc(initial_scored)
    IN  [i \in 1..Min(5, Len(sorted)) |-> sorted[i].hotel]

\* the fallback: every filtered hotel scored and explained, sorted by score;
\* reasons[i] is the remote reply for the i-th hotel
Fallback(filtered, user_pref, reasons) ==
    SortDesc([i \in 1..Len(filtered) |->
        LET score == calculate_recommendation_score(filtered[i], user_pref)
        IN  [hotel |-> filtered[i], score |-> score,
             reasoning |-> generate_recommendation_reason(
                               filtered[i], user_pref, score, API_KEY, reasons[i]).ret]])

\* the handler: the response and the handler's locals
get_recommendations(user_pref, db_ok, reply, reasons) ==
    LET all_hotels == get_all_hotels(db_ok)
        filtered == filter_hotels(all_hotels, user_pref.location, user_pref.min_price,
                                  user_pref.max_price, user_pref.required_amenities)
        reranked == IF Truthy(user_pref.trip_description)
                    THEN rerank_hotels(top_candidates(filtered, user_pref),
                                       user_pref, API_KEY, reply).ret
                    ELSE <<>>
        response ==
            IF reranked /= <<>>
            THEN IF \A i \in 1..Len(reranked) : ValidRecommendation(reranked[i])
                 THEN Response(200, reranked)
                 ELSE Response(500, <<>>)
            ELSE Response(200, Fallback(filtered, user_pref, reasons))
        calls == (IF Truthy(user_pref.trip_description) /\ API_KEY THEN 1 ELSE 0)
                 + (IF reranked = <<>> /\ API_KEY THEN Len(filtered) ELSE 0)
    IN  [response |-> response, calls |-> calls,
         locals |-> [all_hotels |-> all_hotels, filtered |-> filtered,
                     reranked |-> reranked]]

-----------------------------------------------------------------------------
(* Input domains of the server *)

ServerHotelData ==
    {Hotel(0, NYC, p, r, <<Wifi>>) : p \in {100, 300}, r \in {300, 450}}

RowIds == 1..MaxHotels

Tokens == {NoHeader, Header("guess"), Header("secret-token")}

ServerPrefs ==
    {UserPreference(None, 0, mx, <<>>, t) : mx \in {100, 300}, t \in TripDescriptions}

ServerRerankReplies ==
    {ReplyRaises, ReplyInvalid, ReplyNumber, ReplyArray(<<>>)}
        \cup {ReplyArray(<<item>>) :
                item \in {Item(JInt(0), JInt(87), JStr("cosy")),
                          Item(JInt(MaxHotels), JInt(87), JStr("cosy")),
                          Item(JStr("first"), JInt(87), JStr("cosy")),
                          Item(JInt(0), JNull, JStr("cosy")),
                          Item(JInt(0), JInt(87), JObj),
                          Item(JInt(0), Missing, Missing),
                          NonDict}}

ServerReasonReplies == {Raises, Text(<<"o", "\n">>)}

Booking == [hotel_id |-> 1, user_email |-> "guest@example.com", guest_name |-> "Guest"]

-----------------------------------------------------------------------------
(* The HTTP server *)

Init ==
    /\ table = <<>>
    /\ supabase \in BOOLEAN
    /\ API_KEY \in BOOLEAN
    /\ tasks = <<>>
    /\ call = [op |-> "none"]
    /\ ret = Response(0, <<>>)
    /\ locals = NoLocals
    /\ remote_calls = 0
    /\ pc = "idle"

\* GET /hotels
search_hotels ==
    /\ pc = "idle"
    /\ \E max_price \in {100, 300}, skip \in {-1, 0, 1, MaxHotels},
          limit \in {-1, 0, 1, 100, 101}, db_ok \in BOOLEAN :
        LET all_hotels == get_all_hotels(db_ok)
            filtered == filter_hotels(all_hotels, None, 0, max_price, <<>>)
            start == skip
            end == start + limit
        IN  /\ call' = [op |-> "search_hotels", location |-> None, min_price |-> 0,
                        max_price |-> max_price, amenities |-> <<>>,
                        skip |-> skip, limit |-> limit]
            /\ IF pagination_parameters(skip, limit) /= 0
               THEN /\ ret' = Response(422, <<>>)
                    /\ locals' = NoLocals
               ELSE /\ ret' = Response(200, PySlice(filtered, start, end))
                    /\ locals' = [all_hotels |-> all_hotels, filtered |-> filtered,
                                  reranked |-> <<>>]
    /\ remote_calls' = 0
    /\ pc' = "responded"
    /\ UNCHANGED <<table, supabase, API_KEY, tasks>>

\* POST /recommendations
post_recommendations ==
    /\ pc = "idle"
    /\ \E user_pref \in ServerPrefs, db_ok \in BOOLEAN :
       \E reply \in IF Truthy(user_pref.trip_description) /\ API_KEY
                    THEN ServerRerankReplies ELSE {ReplyRaises} :
        LET n == Len(filter_hotels(get_all_hotels(db_ok), user_pref.location,
                                   user_pref.min_price, user_pref.max_price,
                                   user_pref.required_amenities))
        IN  \E reasons \in [1..n -> IF API_KEY THEN ServerReasonReplies ELSE {Raises}] :
              LET r == get_recommendations(user_pref, db_ok, reply, reasons)
              IN  /\ call' = [op |-> "get_recommendations", user_pref |-> user_pref,
                              reply |-> reply,
                              reasons |-> IF r.locals.reranked = <<>> THEN reasons ELSE <<>>]
                  /\ ret' = r.response
                  /\ locals' = r.locals
                  /\ remote_calls' = r.calls
    /\ pc' = "responded"
    /\ UNCHANGED <<table, supabase, API_KEY, tasks>>

\* POST /admin/hotels
create_hotel ==
    /\ pc = "idle"
    /\ \E token \in Tokens, data \in ServerHotelData, id \in RowIds, db_ok \in BOOLEAN :
        LET hotel == [data EXCEPT !.id = id]
            denied == verify_token(token)
            inserted == db_ok /\ Len(table) < MaxHotels
                              /\ \A i \in 1..Len(table) : table[i].id /= id
        IN  /\ call' = [op |-> "create_hotel", token |-> token, hotel |-> hotel]
            /\ IF denied /= 0
               THEN ret' = Response(denied, <<>>) /\ table' = table
               ELSE IF ~supabase
               THEN ret' = Response(503, <<>>) /\ table' = table
               ELSE IF inserted
               THEN ret' = Response(201, <<hotel>>) /\ table' = Append(table, hotel)
               ELSE ret' = Response(400, <<>>) /\ table' = table
    /\ locals' = NoLocals
    /\ remote_calls' = 0
    /\ pc' = "responded"
    /\ UNCHANGED <<supabase, API_KEY, tasks>>

\* DELETE /admin/hotels/{hotel_id}
delete_hotel ==
    /\ pc = "idle"
    /\ \E token \in Tokens, hotel_id \in RowIds, db_ok \in BOOLEAN :
        LET denied == verify_token(token)
            Kept(row) == row.id /= hotel_id
            Hit(row) == row.id = hotel_id
        IN  /\ call' = [op |-> "delete_hotel", token |-> token, hotel_id |-> hotel_id]
            /\ IF denied /= 0
               THEN ret' = Response(denied, <<>>) /\ table' = table
               ELSE IF ~supabase
               THEN ret' = Response(503, <<>>) /\ table' = table
               ELSE IF db_ok
               THEN /\ ret' = Response(200, SelectSeq(table, Hit))
                    /\ table' = SelectSeq(table, Kept)
               ELSE ret' = Response(400, <<>>) /\ table' = table
    /\ locals' = NoLocals
    /\ remote_calls' = 0
    /\ pc' = "responded"
    /\ UNCHANGED <<supabase, API_KEY, tasks>>

\* PUT /admin/hotels/{hotel_id}
update_hotel_price ==
    /\ pc = "idle"
    /\ \E token \in Tokens, hotel_id \in RowIds, price \in {100, 300}, db_ok \in BOOLEAN :
        LET denied == verify_token(token)
            updated == [i \in 1..Len(table) |->
                           IF table[i].id = hotel_id
                           THEN [table[i] EXCEPT !.price = price] ELSE table[i]]
            Hit(row) == row.id = hotel_id
        IN  /\ call' = [op |-> "update_hotel_price", token |-> token,
                        hotel_id |-> hotel_id, price |-> price]
            /\ IF denied /= 0
               THEN ret' = Response(denied, <<>>) /\ table' = table
               ELSE IF ~supabase
               THEN ret' = Response(503, <<>>) /\ table' = table
               ELSE IF db_ok
               THEN /\ ret' = Response(200, SelectSeq(updated, Hit))
                    /\ table' = updated
               ELSE ret' = Response(400, <<>>) /\ table' = table
    /\ locals' = NoLocals
    /\ remote_calls' = 0
    /\ pc' = "responded"
    /\ UNCHANGED <<supabase, API_KEY, tasks>>

\* POST /bookings
create_booking ==
    /\ pc = "idle"
    /\ Len(tasks) < MaxTasks
    /\ \E token \in Tokens :
        LET denied == verify_token(token)
        IN  /\ call' = [op |-> "create_booking", token |-> token, booking |-> Booking]
            /\ IF denied /= 0
               THEN ret' = Response(denied, <<>>) /\ tasks' = tasks
               ELSE /\ ret' = Response(200, <<Booking.guest_name>>)
                    /\ tasks' = Append(tasks, [email |-> Booking.user_email,
                                               hotel_name |-> Booking.hotel_id])
    /\ locals' = NoLocals
    /\ remote_calls' = 0
    /\ pc' = "responded"
    /\ UNCHANGED <<table, supabase, API_KEY>>

\* a scheduled background task runs
send_confirmation_email ==
    /\ tasks /= <<>>
    /\ tasks' = Tail(tasks)
    /\ UNCHANGED <<table, supabase, API_KEY, call, ret, locals, remote_calls, pc>>

\* the response is sent and the request's data dropped
SendResponse ==
    /\ pc = "responded"
    /\ call' = [op |-> "none"]
    /\ ret' = Response(0, <<>>)
    /\ locals' = NoLocals
    /\ remote_calls' = 0
    /\ pc' = "idle"
    /\ UNCHANGED <<table, supabase, API_KEY, tasks>>

Next ==
    \/ search_hotels
    \/ post_recommendations
    \/ create_hotel
    \/ delete_hotel
    \/ update_hotel_price
    \/ create_booking
    \/ send_confirmation_email
    \/ SendResponse

Spec == Init /\ [][Next]_vars

-----------------------------------------------------------------------------
(* C1 *)

\* the three criteria of the filter contract, stated on one hotel
LocationOk(h, location) ==
    ~location.some \/ StrIn(Lower(location.v), Lower(h.location))

PriceOk(h, min_price, max_price) == min_price <= h.price /\ h.price <= max_price

AmenitiesOk(h, amenities) ==
    \A j \in 1..Len(amenities) :
        \E k \in 1..Len(h.amenities) : Lower(h.amenities[k]) = Lower(amenities[j])

Passes(h, location, min_price, max_price, amenities) ==
    /\ LocationOk(h, location)
    /\ PriceOk(h, min_price, max_price)
    /\ AmenitiesOk(h, amenities)

Satisfies(h) ==
    Passes(h, call.location, call.min_price, call.max_price, call.amenities)

\* C1: filter_hotels returns exactly the hotels of the collection that meet
\* the location, price and amenity criteria, each once, in their original
\* relative order: the result is the collection with the failing hotels
\* struck out, so its ids are strictly increasing and are exactly the ids of
\* the satisfying hotels.
C1_FilterExact ==
    (pc = "returned" /\ call.op = "filter_hotels") =>
        /\ \A i \in 1..Len(ret) : ret[i] = call.hotels[ret[i].id]
        /\ \A i \in 1..Len(ret) : \A j \in 1..Len(ret) : i < j => ret[i].id < ret[j].id
        /\ {ret[i].id : i \in 1..Len(ret)}
             = {i \in 1..Len(call.hotels) : Satisfies(call.hotels[i])}

C1_Witness ==
    /\ pc = "returned" /\ call.op = "filter_hotels"
    /\ Len(call.hotels) = 2 /\ Len(ret) = 1 /\ ret[1].id = 2
    /\ Truthy(call.location) /\ call.amenities /= <<>>

-----------------------------------------------------------------------------
(* C2, C3 *)

\* C2 as stated: for a rating in [0, 5] and a non-negative price the score
\* lies in [0, 70].
C2_ScoreWithin70 ==
    (pc = "returned" /\ call.op = "calculate_recommendation_score"
        /\ 0 <= call.hotel.rating /\ call.hotel.rating <= 500
        /\ call.hotel.price >= 0)
        => (0 <= ret /\ ret <= 700)

\* C2 amended: for a rating in [0, 5] and a non-negative price the score
\* lies in [0, 100].
C2_ScoreWithin100 ==
    (pc = "returned" /\ call.op = "calculate_recommendation_score"
        /\ 0 <= call.hotel.rating /\ call.hotel.rating <= 500
        /\ call.hotel.price >= 0)
        => (0 <= ret /\ ret <= 1000)

C2_Witness ==
    /\ pc = "returned" /\ call.op = "calculate_recommendation_score"
    /\ call.hotel.rating = 500 /\ Len(call.hotel.amenities) > 5
    /\ call.hotel.price <= call.user_pref.max_price
    /\ ret = 1000

\* the formula of the scoring contract, in thousandths
ContractScore(price, rating, amenity_count, max_price) ==
    (IF max_price > 0 /\ price <= max_price THEN 40000 ELSE 0)
        + 60 * rating
        + (IF 6 * amenity_count <= 30 THEN 6000 * amenity_count ELSE 30000)

-----------------------------------------------------------------------------
(* C4 *)

\* C4 as stated: generate_recommendation_reason returns a non-empty string
\* whatever the remote capability does: unconfigured, failing, returning
\* empty text, or returning any text, text made only of whitespace included.
C4_ReasonNonEmpty ==
    (pc = "returned" /\ call.op = "generate_recommendation_reason") => ret /= <<>>

-----------------------------------------------------------------------------
(* C6, C8 *)

\* a ranking item: a dict whose index is an integer, null or absent
IsRankingItem(item) == item.isdict /\ item.index.t \in {"int", "null", "missing"}

\* the positions of the items whose index lies in [0, n)
InRangePositions(items, n) ==
    {i \in 1..Len(items) :
        items[i].index.t = "int" /\ 0 <= items[i].index.n /\ items[i].index.n < n}

\* the k-th smallest element of a set of numbers
KthOf(S, k) == CHOOSE i \in S : Cardinality({j \in S : j < i}) = k - 1

\* C6: when the reply parses to a list of ranking items, rerank_hotels emits,
\* in item order, one entry per item whose index lies in [0, len(candidates)):
\* the candidate at that index, the item's score (0 if absent) and the item's
\* reasoning ("AI Recommended" if absent); every other item is dropped and
\* the entries of the rest stay.
C6_RerankEntries ==
    (pc = "returned" /\ call.op = "rerank_hotels" /\ remote_calls = 1
        /\ call.reply.kind = "array"
        /\ \A i \in 1..Len(call.reply.rankings) : IsRankingItem(call.reply.rankings[i]))
    => LET items == call.reply.rankings
           keep == InRangePositions(items, Len(call.hotels))
       IN  /\ Len(ret) = Cardinality(keep)
           /\ \A k \in 1..Len(ret) :
                LET item == items[KthOf(keep, k)]
                IN  /\ ret[k].hotel = call.hotels[item.index.n + 1]
                    /\ ret[k].score =
                         (IF item.score.t = "missing" THEN JInt(0) ELSE item.score)
                    /\ ret[k].reasoning =
                         (IF item.reasoning.t = "missing" THEN JStr("AI Recommended")
                          ELSE item.reasoning)

C6_Witness ==
    /\ pc = "returned" /\ call.op = "rerank_hotels" /\ remote_calls = 1
    /\ call.reply.kind = "array" /\ Len(call.reply.rankings) = 2
    /\ call.reply.rankings[1].isdict /\ call.reply.rankings[1].index = JInt(Len(call.hotels))
    /\ call.reply.rankings[2] = Item(JInt(0), Missing, Missing)
    /\ Len(ret) = 1
    /\ ret[1] = [hotel |-> call.hotels[1], score |-> JInt(0),
                 reasoning |-> JStr("AI Recommended")]

\* C8: rerank_hotels returns an empty list when the candidate list is empty,
\* when the preference has no trip description and when no API key is
\* configured; in the last two cases it makes no remote call.
C8_RerankEmpty ==
    (pc = "returned" /\ call.op = "rerank_hotels") =>
        /\ call.hotels = <<>> => ret = <<>>
        /\ ~Truthy(call.user_pref.trip_description) => (ret = <<>> /\ remote_calls = 0)
        /\ ~API_KEY => (ret = <<>> /\ remote_calls = 0)

C8_Witness ==
    /\ pc = "returned" /\ call.op = "rerank_hotels"
    /\ call.hotels = <<>> /\ remote_calls = 1
    /\ call.reply.kind = "array" /\ Len(call.reply.rankings) > 0
    /\ call.reply.rankings[1] = Item(JInt(0), JInt(87), JStr("cosy"))
    /\ ret = <<>>

-----------------------------------------------------------------------------
(* C5, C7 *)

\* C5 as stated: whatever the remote text generation does, POST
\* /recommendations completes with a normal recommendation list and never
\* with a request-level error.
C5_NoRequestError ==
    (pc = "responded" /\ call.op = "get_recommendations") => ret.status = 200

\* C7: when the preference has no trip description, or no API key is
\* configured, or the reranker yields nothing, the response holds every hotel
\* that passed the filter exactly once and no other, each with the score of
\* calculate_recommendation_score, in order of non-increasing score.
C7_FallbackRanking ==
    (pc = "responded" /\ call.op = "get_recommendations"
        /\ (~Truthy(call.user_pref.trip_description) \/ ~API_KEY
               \/ locals.reranked = <<>>))
    => LET p == call.user_pref
           passed == {h \in Range(locals.all_hotels) :
                         Passes(h, p.location, p.min_price, p.max_price,
                                p.required_amenities)}
           body == ret.body
       IN  /\ ret.status = 200
           /\ {body[i].hotel : i \in 1..Len(body)} = passed
           /\ Len(body) = Cardinality(passed)
           /\ \A i \in 1..Len(body) :
                 body[i].score = calculate_recommendation_score(body[i].hotel, p)
           /\ \A i \in 1..Len(body) : \A j \in 1..Len(body) :
                 i < j => body[i].score >= body[j].score

C7_Witness ==
    /\ pc = "responded" /\ call.op = "get_recommendations"
    /\ Truthy(call.user_pref.trip_description) /\ API_KEY
    /\ call.reply.kind = "array" /\ Len(call.reply.rankings) = 1
    /\ locals.reranked = <<>>
    /\ Len(ret.body) = 2
    /\ ret.body[1].score > ret.body[2].score
    /\ ret.body[1].hotel = locals.filtered[2]

-----------------------------------------------------------------------------
(* C9 *)

ProtectedOps == {"create_hotel", "delete_hotel", "update_hotel_price", "create_booking"}

\* a step that handles a request to a protected endpoint
ProtectedRequest == pc = "idle" /\ pc' = "responded" /\ call'.op \in ProtectedOps

\* C9: a request to an admin or booking endpoint whose secret header is
\* absent or wrong is rejected and changes neither the table nor the
\* scheduled notifications; the table changes and a notification is scheduled
\* only in a request that carried the secret.
C9_SecretRequired ==
    [][/\ (ProtectedRequest /\ call'.token /= Header("secret-token"))
            => (ret'.status \in {400, 422} /\ table' = table /\ tasks' = tasks)
       /\ (table' /= table \/ Len(tasks') > Len(tasks))
            => (ProtectedRequest /\ call'.token = Header("secret-token"))]_vars

C9_Witness ==
    /\ pc = "responded" /\ call.op = "delete_hotel"
    /\ call.token = Header("guess") /\ ret.status = 400
    /\ supabase
    /\ \E i \in 1..Len(table) : table[i].id = call.hotel_id

-----------------------------------------------------------------------------
(* C10 *)

\* C10 as stated: for every accepted skip and limit the response of GET
\* /hotels is the run of filtered hotels that starts at position skip and
\* holds min(limit, hotels remaining from skip) hotels (none when that is not
\* positive), so never more than limit hotels.
C10_OffsetLimitSlice ==
    (pc = "responded" /\ call.op = "search_hotels" /\ ret.status = 200)
    => LET remaining == Max(0, Len(locals.filtered) - call.skip)
           count == Max(0, Min(call.limit, remaining))
       IN  /\ Len(ret.body) = count
           /\ \A k \in 1..count : ret.body[k] = locals.filtered[call.skip + k]

====
